---- MODULE Spec2Model ----
(***************************************************************************)
(* State-machine model of the transactions page                            *)
(* (src/frontend/app/transactions/page.tsx): the React state of            *)
(* TransactionsPage, its event handlers and effects, and the memoised      *)
(* filter -> search -> sort -> paginate derivation.                        *)
(*                                                                         *)
(* Strings that the code inspects character by character (hash, addresses, *)
(* amount, search text) are sequences of one-character strings.            *)
(* JavaScript numbers that may be NaN are records [nan, v].                *)
(*                                                                         *)
(* Two further components are modelled with their own specifications: the  *)
(* CSV export (csv.ts) and the create-transaction dialog                   *)
(* (src/frontend/components/CreateTransactionForm.tsx).                    *)
(***************************************************************************)
EXTENDS Integers, Sequences, FiniteSets, TLC

VARIABLES
    transactions,     \* useState<Transaction[]>([])            page.tsx:22
    loading,          \* useState(true)                         page.tsx:23
    error,            \* useState<string | null>(null)          page.tsx:24
    statusFilter,     \* useState('all')                        page.tsx:26
    dateFrom,         \* useState('')                           page.tsx:27
    dateTo,           \* useState('')                           page.tsx:28
    searchQuery,      \* useState('')                           page.tsx:29
    debouncedSearch,  \* useState('')                           page.tsx:30
    sortField,        \* useState('date')                       page.tsx:32
    sortOrder,        \* useState('desc')                       page.tsx:33
    currentPage,      \* useState(1)                            page.tsx:35
    timer,            \* pending debounce timeouts, oldest first, each the
                      \* searchQuery its callback captured
    fetching,         \* TRUE while transactionsAPI.getAll() is awaited
    tzOffset,         \* minutes the environment's local time is ahead of UTC
    view,             \* memoised filteredAndSortedTransactions  page.tsx:64
    lastSort,         \* history: the field given to handleSort if the handler
                      \* that ran last was handleSort, "none" otherwise
    csvRows,          \* the rows given to transactionsToCsv     part_004:26
    csvOutput,        \* the string it returned, << >> before the call
    open,             \* prop open of CreateTransactionForm      form:39
    formValues,       \* the field values held by useForm        form:43
    draft,            \* localStorage item DRAFT_KEY             form:16
    submitting,       \* useState(false)                         form:41
    createPending,    \* TRUE while transactionsAPI.create() is awaited
    called,           \* the props callbacks the last handler invoked
    toastTitle,       \* title of the toast shown last, "none" before any
    renderPending     \* TRUE when an effect called reset() and the render
                      \* it requested has not run yet

pageVars == <<transactions, loading, error, statusFilter, dateFrom, dateTo,
              searchQuery, debouncedSearch, sortField, sortOrder, currentPage,
              timer, fetching, tzOffset, view, lastSort>>

csvVars == <<csvRows, csvOutput>>

formVars == <<open, formValues, draft, submitting, createPending, called,
              toastTitle, renderPending>>

\* state outside the transactions page
offPage == <<csvVars, formVars>>

vars == <<pageVars, offPage>>

----------------------------------------------------------------------------
(* Bounds of the model *)

\* Next is clickable whenever currentPage # totalPages, so the page counter
\* is unbounded in the code; the model stops it here.
MaxPage == 3

\* Number of records in the large fetch response (more than one page).
BigLen == 17

\* Page sizes over which the slicing law is examined.
MaxPageSize == 4

\* Longest list over which the page-button window is examined (7 pages).
PagerMaxLen == 100

(* Program constants *)

itemsPerPage == 15

DayMs == 24 * 60 * 60 * 1000

EndOfDayMs == ((23 * 60 + 59) * 60 + 59) * 1000 + 999

----------------------------------------------------------------------------
(* JavaScript numbers *)

NaN == [nan |-> TRUE, v |-> 0]

Num(x) == [nan |-> FALSE, v |-> x]

\* a - b
Minus(a, b) == IF a.nan \/ b.nan THEN NaN ELSE Num(a.v - b.v)

\* -a
Negate(a) == IF a.nan THEN NaN ELSE Num(0 - a.v)

\* a >= b and a <= b: false as soon as one side is NaN
GreaterEq(a, b) == ~a.nan /\ ~b.nan /\ a.v >= b.v

LessEq(a, b) == ~a.nan /\ ~b.nan /\ a.v <= b.v

----------------------------------------------------------------------------
(* Strings *)

UpperToLower ==
    [c \in {"A", "B", "C", "D", "E", "F", "X"} |->
        CASE c = "A" -> "a" [] c = "B" -> "b" [] c = "C" -> "c"
          [] c = "D" -> "d" [] c = "E" -> "e" [] c = "F" -> "f"
          [] c = "X" -> "x"]

\* String.prototype.toLowerCase
toLowerCase(s) ==
    [i \in 1..Len(s) |->
        IF s[i] \in DOMAIN UpperToLower THEN UpperToLower[s[i]] ELSE s[i]]

RECURSIVE includesFrom(_, _, _)
includesFrom(s, q, i) ==
    IF i + Len(q) - 1 > Len(s) THEN FALSE
    ELSE IF SubSeq(s, i, i + Len(q) - 1) = q THEN TRUE
    ELSE includesFrom(s, q, i + 1)

\* String.prototype.includes: scan the start positions left to right
includes(s, q) == includesFrom(s, q, 1)

Digits == {"0", "1", "2", "3", "4", "5", "6", "7", "8", "9"}

DigitVal(c) ==
    CASE c = "0" -> 0 [] c = "1" -> 1 [] c = "2" -> 2 [] c = "3" -> 3
      [] c = "4" -> 4 [] c = "5" -> 5 [] c = "6" -> 6 [] c = "7" -> 7
      [] c = "8" -> 8 [] c = "9" -> 9

RECURSIVE DigitRun(_, _)
\* number of consecutive digits of s starting at position i
DigitRun(s, i) ==
    IF i <= Len(s) /\ s[i] \in Digits THEN 1 + DigitRun(s, i + 1) ELSE 0

RECURSIVE DigitsValue(_, _, _)
\* value of the n digits of s that start at position i
DigitsValue(s, i, n) ==
    IF n = 0 THEN 0
    ELSE DigitsValue(s, i, n - 1) * 10 + DigitVal(s[i + n - 1])

RECURSIVE SkipSpaces(_, _)
SkipSpaces(s, i) ==
    IF i <= Len(s) /\ s[i] = " " THEN SkipSpaces(s, i + 1) ELSE i

\* the digit of s at position i when that position belongs to the fraction
\* digits, 0 otherwise
FractionDigit(s, i, present) == IF present THEN DigitVal(s[i]) ELSE 0

\* the number made of intLen integer digits at p and fracLen fraction digits
\* behind the point, in hundredths; NaN when there is no digit at all
numberAt(s, p, intLen, fracLen) ==
    IF intLen = 0 /\ fracLen = 0 THEN NaN
    ELSE Num(DigitsValue(s, p, intLen) * 100
             + FractionDigit(s, p + intLen + 1, fracLen >= 1) * 10
             + FractionDigit(s, p + intLen + 2, fracLen >= 2))

\* number of fraction digits when a decimal point stands at position dot
fractionLen(s, dot) ==
    IF dot <= Len(s) /\ s[dot] = "." THEN DigitRun(s, dot + 1) ELSE 0

unsignedAt(s, p, intLen) == numberAt(s, p, intLen, fractionLen(s, p + intLen))

signLen(s, p) == IF p <= Len(s) /\ s[p] \in {"-", "+"} THEN 1 ELSE 0

withSign(s, p, n) == IF p <= Len(s) /\ s[p] = "-" THEN Negate(n) ELSE n

signedAt(s, p, q) == withSign(s, p, unsignedAt(s, q, DigitRun(s, q)))

numberFrom(s, p) == signedAt(s, p, p + signLen(s, p))

\* parseFloat: the longest numeric prefix after leading white space, NaN when
\* that prefix has no digit.  Values are kept in hundredths (two fraction
\* digits; the responses use no more).
parseFloat(s) == numberFrom(s, SkipSpaces(s, 1))

----------------------------------------------------------------------------
(* Dates *)

\* The text of an <input type="date">: '' or 'YYYY-MM-DD' (day d of the month)
NoDate == [set |-> FALSE, day |-> 0]

DateText(d) == [set |-> TRUE, day |-> d]

\* An ISO timestamp '....-..-ddThh:00:00.000Z' plus ms milliseconds, or a text
\* that is no date
IsoText(d, h, ms) == [iso |-> TRUE, day |-> d, hour |-> h, ms |-> ms]

BadText == [iso |-> FALSE, day |-> 0, hour |-> 0, ms |-> 0]

\* new Date(tx.timestamp).getTime(): epoch milliseconds, NaN if unparseable
DateOfTimestamp(ts) ==
    IF ts.iso THEN Num(ts.day * DayMs + ts.hour * 3600000 + ts.ms) ELSE NaN

\* new Date('YYYY-MM-DD'): a date-only text is midnight UTC of that day
DateOfInput(d) == Num(d.day * DayMs)

\* Date.prototype.setHours(23, 59, 59, 999): replaces the LOCAL time of day,
\* keeping the local calendar day of the instant
setHoursEndOfDay(t, tz) ==
    LET local == t.v + tz * 60000
        day0  == (local \div DayMs) * DayMs
    IN  Num(day0 + EndOfDayMs - tz * 60000)

----------------------------------------------------------------------------
(* Fetch responses: what transactionsAPI.getAll() may deliver *)

Tx(id, hash, from, to, amount, status, ts) ==
    [id |-> id, hash |-> hash, fromAddress |-> from, toAddress |-> to,
     amount |-> amount, status |-> status, timestamp |-> ts]

\* A handful of irregular records: mixed-case hash and address, an amount
\* that is no number, a timestamp that is no date, equal dates and amounts.
SmallResponse ==
    << Tx(1, <<"0", "x", "A", "B", "c">>, <<"0", "x", "f", "1">>,
          <<"0", "x", "t", "1">>, <<"1", ".", "5">>, "confirmed",
          IsoText(1, 12, 0)),
       Tx(2, <<"0", "x", "d", "e", "a", "d">>, <<"0", "x", "d", "e", "a", "d">>,
          <<"0", "x", "d", "e", "a", "d">>, <<"a", "b", "c">>, "pending",
          IsoText(1, 12, 0)),
       Tx(3, <<"0", "x", "b", "e", "e", "f">>, <<"0", "x", "f", "3">>,
          <<"0", "X", "a", "b", "C">>, <<"0", ".", "2">>, "pending",
          BadText),
       Tx(4, <<"0", "x", "f", "0", "0", "d">>, <<"0", "x", "f", "4">>,
          <<"0", "x", "t", "4">>, <<"1", ".", "5">>, "failed",
          IsoText(1, 3, 0)) >>

BigHash(i) ==
    IF i % 5 = 0 THEN <<"0", "X", "a", "b", "9">> ELSE <<"0", "x", "c", "d">>

BigAmount(i) ==
    CASE i % 4 = 0 -> <<"1", ".", "5">>
      [] i % 4 = 1 -> <<"0", ".", "2">>
      [] i % 4 = 2 -> <<"1", "0">>
      [] OTHER     -> <<"0", ".", "2", "5">>

BigStatus(i) ==
    CASE i % 3 = 0 -> "pending" [] i % 3 = 1 -> "confirmed" [] OTHER -> "failed"

\* Well-formed records spread over days 1 and 2; record 1 lies on the first
\* millisecond of day 1 and record 3 on its last
BigTimestamp(i) ==
    IF i = 3 THEN IsoText(1, 23, 3599999)
    ELSE IsoText(2 - (i % 2), ((i - 1) * 7) % 24, 0)

BigResponse ==
    [i \in 1..BigLen |->
        Tx(100 + i, BigHash(i), <<"0", "x", "f">>, <<"0", "x", "t">>,
           BigAmount(i), BigStatus(i), BigTimestamp(i))]

Responses == {<< >>, SmallResponse, BigResponse}

\* A response of n records created in the same millisecond, for the
\* pagination controls of long lists
PagerResponse(n) ==
    [i \in 1..n |->
        Tx(1000 + i, <<"0", "x">>, <<"0", "x", "f">>, <<"0", "x", "t">>,
           <<"1">>, "confirmed", IsoText(1, 0, 0))]

(* What the user may enter *)

StatusChoices == {"all", "pending", "confirmed", "failed"}

DateChoices == {NoDate, DateText(1)}

SearchTexts == {<< >>, <<" ">>, <<"x", "A", "B">>}

SortFields == {"date", "amount", "status"}

NoError == "null"

FetchError == "Failed to load transactions. Please try again."

----------------------------------------------------------------------------
(* The memoised derivation filteredAndSortedTransactions, page.tsx:64-106 *)

\* if (statusFilter !== 'all') result = result.filter(...)
filterStatus(list, sf) ==
    IF sf # "all" THEN SelectSeq(list, LAMBDA tx : tx.status = sf) ELSE list

\* if (dateFrom) { fromDate = new Date(dateFrom); filter(>= fromDate) }
filterDateFrom(list, df) ==
    IF df.set
    THEN SelectSeq(list, LAMBDA tx :
            GreaterEq(DateOfTimestamp(tx.timestamp), DateOfInput(df)))
    ELSE list

\* if (dateTo) { toDate = new Date(dateTo); toDate.setHours(23, 59, 59, 999);
\*               filter(<= toDate) }
filterDateTo(list, dt, tz) ==
    IF dt.set
    THEN SelectSeq(list, LAMBDA tx :
            LessEq(DateOfTimestamp(tx.timestamp),
                   setHoursEndOfDay(DateOfInput(dt), tz)))
    ELSE list

\* matchesSearch requiring the query in all three fields
matchesSearchAllFields(tx, query) ==
    /\ includes(toLowerCase(tx.hash), query)
    /\ includes(toLowerCase(tx.fromAddress), query)
    /\ includes(toLowerCase(tx.toAddress), query)

\* the predicate of the text-search filter
matchesSearch(tx, query) ==
    \/ includes(toLowerCase(tx.hash), query)
    \/ includes(toLowerCase(tx.fromAddress), query)
    \/ includes(toLowerCase(tx.toAddress), query)

\* if (debouncedSearch) { query = debouncedSearch.toLowerCase(); filter(...) }
filterSearch(list, ds) ==
    IF ds # << >>
    THEN SelectSeq(list, LAMBDA tx : matchesSearch(tx, toLowerCase(ds)))
    ELSE list

\* the four filter stages in the order of the code
filtered(txs, sf, df, dt, ds, tz) ==
    filterSearch(filterDateTo(filterDateFrom(filterStatus(txs, sf), df), dt, tz), ds)

StatusOrder == <<"confirmed", "failed", "pending">>

StatusRank(st) == CHOOSE i \in 1..Len(StatusOrder) : StatusOrder[i] = st

\* the sign of an integer
Sign(n) == IF n < 0 THEN -1 ELSE IF n > 0 THEN 1 ELSE 0

\* a.status.localeCompare(b.status) on the three status words
localeCompare(a, b) == Sign(StatusRank(a) - StatusRank(b))

\* the value of `comparison` in the callback given to sort
comparison(a, b, field) ==
    CASE field = "date" ->
            Minus(DateOfTimestamp(a.timestamp), DateOfTimestamp(b.timestamp))
      [] field = "amount" ->
            Minus(parseFloat(a.amount), parseFloat(b.amount))
      [] field = "status" ->
            Num(localeCompare(a.status, b.status))

\* sortOrder === 'asc' ? comparison : -comparison
applyOrder(c, order) == IF order = "asc" THEN c ELSE Negate(c)

\* the value the callback returns
comparator(a, b, field, order) == applyOrder(comparison(a, b, field), order)

\* NaN counts as +0, otherwise only the sign matters
signOrZero(v) == IF v.nan THEN 0 ELSE Sign(v.v)

\* What Array.prototype.sort makes of the callback's result (ECMAScript
\* SortCompare)
SortCompare(a, b, field, order) == signOrZero(comparator(a, b, field, order))

\* insert x behind every element that does not sort after it
insertSorted(sorted, x, field, order) ==
    LET k == Cardinality({i \in 1..Len(sorted) :
                            SortCompare(sorted[i], x, field, order) <= 0})
    IN  SubSeq(sorted, 1, k) \o <<x>> \o SubSeq(sorted, k + 1, Len(sorted))

RECURSIVE stableSortPrefix(_, _, _, _)
\* the first n elements sorted; the sorted prefix is bound to a value before
\* the next element is inserted into it
stableSortPrefix(list, n, field, order) ==
    IF n = 0 THEN << >>
    ELSE CHOOSE r \in {insertSorted(prefix, list[n], field, order) :
                          prefix \in {stableSortPrefix(list, n - 1, field, order)}} :
            TRUE

\* Array.prototype.sort with a consistent comparator: sorted and stable
stableSort(list, field, order) == stableSortPrefix(list, Len(list), field, order)

sortKeyIsNaN(tx, field) ==
    CASE field = "date"   -> DateOfTimestamp(tx.timestamp).nan
      [] field = "amount" -> parseFloat(tx.amount).nan
      [] field = "status" -> FALSE

\* "equal", "less" and "greater" carry over from (a, b) and (b, d) to (a, d)
transitive(ab, bd, ad) ==
    /\ (ab = 0 /\ bd = 0) => ad = 0
    /\ (ab < 0 /\ bd < 0) => ad < 0
    /\ (ab > 0 /\ bd > 0) => ad > 0

\* ECMAScript "consistent comparator" over the elements being sorted:
\* "equal" and "less" as told by the callback must be transitive.  Without a
\* NaN key the callback is a difference of numbers and is consistent, which
\* the first disjunct decides without enumerating the triples.
consistentComparator(list, field, order) ==
    \/ \A i \in 1..Len(list) : ~sortKeyIsNaN(list[i], field)
    \/ \A c \in {[p \in (1..Len(list)) \X (1..Len(list)) |->
                    SortCompare(list[p[1]], list[p[2]], field, order)]} :
          \A i, j, k \in 1..Len(list) :
              transitive(c[<<i, j>>], c[<<j, k>>], c[<<i, k>>])

permutationsOf(list) ==
    {[i \in 1..Len(list) |-> list[p[i]]] : p \in Permutations(1..Len(list))}

\* result.sort(callback): the stably sorted list when the callback is a
\* consistent comparator; otherwise the order is implementation-defined and
\* every arrangement of the elements is a possible outcome.
sortOutcomes(list, field, order) ==
    IF consistentComparator(list, field, order)
    THEN {stableSort(list, field, order)}
    ELSE permutationsOf(list)

\* the values the useMemo callback can return
filteredAndSortedTransactions(txs, sf, df, dt, ds, field, order, tz) ==
    UNION {sortOutcomes(result, field, order) :
              result \in {filtered(txs, sf, df, dt, ds, tz)}}

----------------------------------------------------------------------------
(* Pagination, page.tsx:108-116 *)

\* Array.prototype.slice(start, end) for 0 <= start <= end
slice(list, start, end) ==
    LET n  == Len(list)
        lo == IF start < n THEN start ELSE n
        hi == IF end < n THEN end ELSE n
    IN  SubSeq(list, lo + 1, hi)

\* pageSlice with the slice ending one element early
pageSliceShort(list, page, size) ==
    LET start == (page - 1) * size
        end   == start + size - 1
    IN  slice(list, start, end)

\* filteredAndSortedTransactions.slice(start, start + size)
pageSlice(list, page, size) ==
    LET start == (page - 1) * size
        end   == start + size
    IN  slice(list, start, end)

\* Math.ceil(length / size)
totalPagesOf(len, size) == (len + size - 1) \div size

paginatedTransactions == pageSlice(view, currentPage, itemsPerPage)

totalPages == totalPagesOf(Len(view), itemsPerPage)

showingFrom == IF Len(view) = 0 THEN 0 ELSE (currentPage - 1) * itemsPerPage + 1

showingTo ==
    IF currentPage * itemsPerPage < Len(view)
    THEN currentPage * itemsPerPage ELSE Len(view)

\* !loading && !error && filteredAndSortedTransactions.length > 0
tableShown == ~loading /\ error = NoError /\ Len(view) > 0

\* {loading && <skeleton>}
loadingShown == loading

\* {error && <Alert> ... <Button onClick={fetchTransactions}>Retry}
errorShown == error # NoError

NoneFound == "No transactions found. Create your first transaction to get started."

NoneMatch == "No transactions match your filters. Try adjusting your search criteria."

\* an empty state that ignores the length of the filtered list
emptyStateShownAnyLength == ~loading /\ error = NoError

\* !loading && !error && filteredAndSortedTransactions.length === 0
emptyStateShown == ~loading /\ error = NoError /\ Len(view) = 0

\* transactions.length === 0 ? ... : ...
emptyStateMessage == IF Len(transactions) = 0 THEN NoneFound ELSE NoneMatch

\* page numbers whose window at the end stops one page early
pageNumEarly(i) ==
    IF totalPages <= 5 THEN i + 1
    ELSE IF currentPage <= 3 THEN i + 1
    ELSE IF currentPage >= totalPages - 2 THEN totalPages - 5 + i
    ELSE currentPage - 2 + i

\* the number shown on the i-th page button, i = 0 .. min(totalPages, 5) - 1
pageNum(i) ==
    IF totalPages <= 5 THEN i + 1
    ELSE IF currentPage <= 3 THEN i + 1
    ELSE IF currentPage >= totalPages - 2 THEN totalPages - 4 + i
    ELSE currentPage - 2 + i

pageButtons == 0..((IF totalPages < 5 THEN totalPages ELSE 5) - 1)

----------------------------------------------------------------------------
(* Rendering: useMemo recomputes the list only when a dependency changed *)

memoDeps ==
    <<transactions, statusFilter, dateFrom, dateTo, debouncedSearch,
      sortField, sortOrder>>

Memo ==
    IF memoDeps' = memoDeps
    THEN view' = view
    ELSE view' \in filteredAndSortedTransactions(transactions', statusFilter',
                      dateFrom', dateTo', debouncedSearch', sortField',
                      sortOrder', tzOffset)

\* a cleanup that leaves the timeout of the previous effect run pending
clearTimeoutNever(pending) == pending

\* return () => clearTimeout(timer): the cleanup of the debounce effect
\* cancels the timeout that the previous run of the effect set (the newest)
clearTimeout(pending) ==
    IF pending = << >> THEN << >> ELSE SubSeq(pending, 1, Len(pending) - 1)

\* setTimeout(() => {...}, 300): the callback captures searchQuery of the
\* render in which the effect ran
setTimeout(pending, captured) == Append(pending, captured)

\* one re-run of the debounce effect after searchQuery changed to q
debounceEffect(pending, q) == setTimeout(clearTimeout(pending), q)

\* every handler other than handleSort
NotSort == lastSort' = "none"

----------------------------------------------------------------------------
(* CreateTransactionForm.tsx: form values, the stored draft, validation    *)

DefaultGasLimit == <<"2", "1", "0", "0", "0">>

DefaultGasPrice == <<"0", ".", "0", "0", "0", "0", "0", "0", "0", "2">>

\* defaultValues of useForm, also the argument of both reset({...}) calls
defaultValues ==
    [toAddress |-> << >>, amount |-> << >>, gasLimit |-> DefaultGasLimit,
     gasPrice |-> DefaultGasPrice]

\* localStorage.getItem(DRAFT_KEY) === null
NoItem == [present |-> FALSE, text |-> << >>]

Item(text) == [present |-> TRUE, text |-> text]

FieldNames == <<"toAddress", "amount", "gasLimit", "gasPrice">>

\* JSON.stringify of an object of strings: its members, in key order
JSONstringify(values) ==
    [i \in 1..Len(FieldNames) |-> <<FieldNames[i], values[FieldNames[i]]>>]

\* JSON.parse of such a text: the object with these members
JSONparse(text) ==
    [name \in {text[i][1] : i \in 1..Len(text)} |->
        text[CHOOSE i \in 1..Len(text) : text[i][1] = name][2]]

\* a load effect that never restores
loadEffectNothing(isOpen, item, values) == values

\* the field values after the load effect (form:56-68): reset(parsed) when
\* the dialog is open and a draft is stored
loadEffect(isOpen, item, values) ==
    IF isOpen /\ item.present THEN JSONparse(item.text) ELSE values

\* whether the load effect called reset()
resetCalled(isOpen, item) == isOpen /\ item.present

\* the stored item after the save effect (form:70-78), which runs after
\* every render because watch() returns a new object each time
saveEffect(isOpen, watchedValues, item) ==
    IF isOpen THEN Item(JSONstringify(watchedValues)) ELSE item

HexChars ==
    {"0", "1", "2", "3", "4", "5", "6", "7", "8", "9",
     "a", "b", "c", "d", "e", "f", "A", "B", "C", "D", "E", "F"}

\* /^0x[a-fA-F0-9]{40}$/
isAddress(text) ==
    /\ Len(text) = 42
    /\ text[1] = "0"
    /\ text[2] = "x"
    /\ \A i \in 3..42 : text[i] \in HexChars

\* !isNaN(parseFloat(val)) && parseFloat(val) > 0
positiveNumber(text) == ~parseFloat(text).nan /\ parseFloat(text).v > 0

\* createTransactionSchema, form:18-29
schemaValid(values) ==
    /\ Len(values.toAddress) >= 1
    /\ isAddress(values.toAddress)
    /\ Len(values.amount) >= 1
    /\ positiveNumber(values.amount)

(* What the user may type into the fields *)

GoodAddress ==
    [i \in 1..42 |->
        IF i = 1 THEN "0" ELSE IF i = 2 THEN "x"
        ELSE IF i % 2 = 1 THEN "a" ELSE "F"]

FieldTexts(name) ==
    CASE name = "toAddress" -> {<< >>, GoodAddress, <<"0", "x", "1">>}
      [] name = "amount"    -> {<< >>, <<"1", ".", "5">>, <<"a", "b", "c">>}
      [] name = "gasLimit"  -> {<< >>, DefaultGasLimit}
      [] name = "gasPrice"  -> {<< >>, DefaultGasPrice}

\* the dialog is closed, nothing typed, nothing stored
FormIdle ==
    /\ open = FALSE
    /\ formValues = defaultValues
    /\ draft = NoItem
    /\ submitting = FALSE
    /\ createPending = FALSE
    /\ called = {}
    /\ toastTitle = "none"
    /\ renderPending = FALSE

----------------------------------------------------------------------------
(* Initial state: the component is mounted, both mount effects have run *)

TimeZones == {-300, 0, 120}

InitPage ==
    /\ transactions = << >>
    /\ loading = TRUE
    /\ error = NoError
    /\ statusFilter = "all"
    /\ dateFrom = NoDate
    /\ dateTo = NoDate
    /\ searchQuery = << >>
    /\ debouncedSearch = << >>
    /\ sortField = "date"
    /\ sortOrder = "desc"
    /\ currentPage = 1
    /\ timer = << searchQuery >>
    /\ fetching = TRUE
    /\ tzOffset \in TimeZones
    /\ view = << >>
    /\ lastSort = "none"

\* transactionsToCsv has not been called
CsvIdle == csvRows = << >> /\ csvOutput = << >>

Init == InitPage /\ CsvIdle /\ FormIdle

----------------------------------------------------------------------------
(* fetchTransactions, page.tsx:46-58 *)

\* Retry button (shown while error is set): setLoading(true); setError(null);
\* then the request is awaited
Retry ==
    /\ errorShown
    /\ loading' = TRUE
    /\ error' = NoError
    /\ fetching' = TRUE
    /\ NotSort
    /\ UNCHANGED <<transactions, statusFilter, dateFrom, dateTo, searchQuery,
                   debouncedSearch, sortField, sortOrder, currentPage, timer,
                   tzOffset>>
    /\ UNCHANGED offPage
    /\ Memo

\* the request resolves: setTransactions(response.data.data); finally
\* setLoading(false)
FetchResolve(data) ==
    /\ fetching
    /\ transactions' = data
    /\ loading' = FALSE
    /\ fetching' = FALSE
    /\ NotSort
    /\ UNCHANGED <<error, statusFilter, dateFrom, dateTo, searchQuery,
                   debouncedSearch, sortField, sortOrder, currentPage, timer,
                   tzOffset>>
    /\ UNCHANGED offPage
    /\ Memo

\* a catch branch without the finally block
FetchRejectNoFinally ==
    /\ fetching
    /\ error' = FetchError
    /\ fetching' = FALSE
    /\ NotSort
    /\ UNCHANGED <<transactions, loading, statusFilter, dateFrom, dateTo,
                   searchQuery, debouncedSearch, sortField, sortOrder,
                   currentPage, timer, tzOffset>>
    /\ UNCHANGED offPage
    /\ Memo

\* the request rejects: setError(...); finally setLoading(false)
FetchReject ==
    /\ fetching
    /\ error' = FetchError
    /\ loading' = FALSE
    /\ fetching' = FALSE
    /\ NotSort
    /\ UNCHANGED <<transactions, statusFilter, dateFrom, dateTo, searchQuery,
                   debouncedSearch, sortField, sortOrder, currentPage, timer,
                   tzOffset>>
    /\ UNCHANGED offPage
    /\ Memo

----------------------------------------------------------------------------
(* Search box and its debounce effect, page.tsx:38-44, 186-199 *)

\* onChange of the search input: setSearchQuery(value); the effect's cleanup
\* clears the pending timeout and the effect sets a new one
SetSearchQuery(q) ==
    /\ q # searchQuery
    /\ searchQuery' = q
    /\ timer' = debounceEffect(timer, q)
    /\ NotSort
    /\ UNCHANGED <<transactions, loading, error, statusFilter, dateFrom, dateTo,
                   debouncedSearch, sortField, sortOrder, currentPage, fetching,
                   tzOffset>>
    /\ UNCHANGED offPage
    /\ Memo

\* the X button inside the search box, rendered while searchQuery is not empty
ClearSearch ==
    /\ searchQuery # << >>
    /\ searchQuery' = << >>
    /\ timer' = debounceEffect(timer, << >>)
    /\ NotSort
    /\ UNCHANGED <<transactions, loading, error, statusFilter, dateFrom, dateTo,
                   debouncedSearch, sortField, sortOrder, currentPage, fetching,
                   tzOffset>>
    /\ UNCHANGED offPage
    /\ Memo

\* the oldest pending timeout expires: setDebouncedSearch(searchQuery);
\* setCurrentPage(1)
TimerFire ==
    /\ timer # << >>
    /\ debouncedSearch' = Head(timer)
    /\ currentPage' = 1
    /\ timer' = Tail(timer)
    /\ NotSort
    /\ UNCHANGED <<transactions, loading, error, statusFilter, dateFrom, dateTo,
                   searchQuery, sortField, sortOrder, fetching, tzOffset>>
    /\ UNCHANGED offPage
    /\ Memo

----------------------------------------------------------------------------
(* Filter controls, page.tsx:202-236 and 118-124 *)

\* <Select onValueChange={setStatusFilter}>
SetStatusFilter(s) ==
    /\ s # statusFilter
    /\ statusFilter' = s
    /\ NotSort
    /\ UNCHANGED <<transactions, loading, error, dateFrom, dateTo, searchQuery,
                   debouncedSearch, sortField, sortOrder, currentPage, timer,
                   fetching, tzOffset>>
    /\ UNCHANGED offPage
    /\ Memo

\* onChange={(e) => setDateFrom(e.target.value)}
SetDateFrom(d) ==
    /\ d # dateFrom
    /\ dateFrom' = d
    /\ NotSort
    /\ UNCHANGED <<transactions, loading, error, statusFilter, dateTo,
                   searchQuery, debouncedSearch, sortField, sortOrder,
                   currentPage, timer, fetching, tzOffset>>
    /\ UNCHANGED offPage
    /\ Memo

\* onChange={(e) => setDateTo(e.target.value)}
SetDateTo(d) ==
    /\ d # dateTo
    /\ dateTo' = d
    /\ NotSort
    /\ UNCHANGED <<transactions, loading, error, statusFilter, dateFrom,
                   searchQuery, debouncedSearch, sortField, sortOrder,
                   currentPage, timer, fetching, tzOffset>>
    /\ UNCHANGED offPage
    /\ Memo

\* Clear Filters button; the debounce effect restarts only if searchQuery
\* actually changed
clearFilters ==
    /\ statusFilter' = "all"
    /\ dateFrom' = NoDate
    /\ dateTo' = NoDate
    /\ searchQuery' = << >>
    /\ currentPage' = 1
    /\ timer' = IF searchQuery # << >>
                THEN debounceEffect(timer, << >>) ELSE timer
    /\ NotSort
    /\ UNCHANGED <<transactions, loading, error, debouncedSearch, sortField,
                   sortOrder, fetching, tzOffset>>
    /\ UNCHANGED offPage
    /\ Memo

----------------------------------------------------------------------------
(* Column headers and pagination controls (rendered with the table only) *)

\* handleSort that selects descending order on every click
handleSortNoToggle(field) ==
    /\ tableShown
    /\ sortField' = field
    /\ sortOrder' = "desc"
    /\ currentPage' = 1
    /\ lastSort' = field
    /\ UNCHANGED <<transactions, loading, error, statusFilter, dateFrom, dateTo,
                   searchQuery, debouncedSearch, timer, fetching, tzOffset>>
    /\ UNCHANGED offPage
    /\ Memo

\* handleSort, page.tsx:126-134
handleSort(field) ==
    /\ tableShown
    /\ IF sortField = field
       THEN /\ sortOrder' = (IF sortOrder = "asc" THEN "desc" ELSE "asc")
            /\ sortField' = sortField
       ELSE /\ sortField' = field
            /\ sortOrder' = "desc"
    /\ currentPage' = 1
    /\ lastSort' = field
    /\ UNCHANGED <<transactions, loading, error, statusFilter, dateFrom, dateTo,
                   searchQuery, debouncedSearch, timer, fetching, tzOffset>>
    /\ UNCHANGED offPage
    /\ Memo

\* Previous button, disabled when currentPage === 1
PreviousPage ==
    /\ tableShown
    /\ currentPage # 1
    /\ currentPage' = currentPage - 1
    /\ NotSort
    /\ UNCHANGED <<transactions, loading, error, statusFilter, dateFrom, dateTo,
                   searchQuery, debouncedSearch, sortField, sortOrder, timer,
                   fetching, tzOffset>>
    /\ UNCHANGED offPage
    /\ Memo

\* Next button, disabled when currentPage === totalPages
NextPage ==
    /\ tableShown
    /\ currentPage # totalPages
    /\ currentPage < totalPages \/ currentPage < MaxPage
    /\ currentPage' = currentPage + 1
    /\ NotSort
    /\ UNCHANGED <<transactions, loading, error, statusFilter, dateFrom, dateTo,
                   searchQuery, debouncedSearch, sortField, sortOrder, timer,
                   fetching, tzOffset>>
    /\ UNCHANGED offPage
    /\ Memo

\* one of the numbered page buttons
PageButton(i) ==
    /\ tableShown
    /\ i \in pageButtons
    /\ currentPage' = pageNum(i)
    /\ NotSort
    /\ UNCHANGED <<transactions, loading, error, statusFilter, dateFrom, dateTo,
                   searchQuery, debouncedSearch, sortField, sortOrder, timer,
                   fetching, tzOffset>>
    /\ UNCHANGED offPage
    /\ Memo

----------------------------------------------------------------------------

Next ==
    \/ Retry
    \/ \E data \in Responses : FetchResolve(data)
    \/ FetchReject
    \/ \E q \in SearchTexts : SetSearchQuery(q)
    \/ ClearSearch
    \/ TimerFire
    \/ \E s \in StatusChoices : SetStatusFilter(s)
    \/ \E d \in DateChoices : SetDateFrom(d)
    \/ \E d \in DateChoices : SetDateTo(d)
    \/ clearFilters
    \/ \E f \in SortFields : handleSort(f)
    \/ PreviousPage
    \/ NextPage
    \/ \E i \in 0..4 : PageButton(i)

Spec == Init /\ [][Next]_vars

\* The handlers that write searchQuery, debouncedSearch or the timers, and
\* the fetch that supplies the rows; every other handler leaves these three
\* unchanged.
NextSearch ==
    \/ Retry
    \/ \E data \in Responses : FetchResolve(data)
    \/ FetchReject
    \/ \E q \in SearchTexts : SetSearchQuery(q)
    \/ ClearSearch
    \/ TimerFire
    \/ clearFilters

\* The pagination controls under a loaded list of 1 .. PagerMaxLen rows: the
\* state after the mount fetch resolved and the mount timeout expired
InitPager ==
    /\ \E n \in 1..PagerMaxLen : transactions = PagerResponse(n)
    /\ loading = FALSE
    /\ error = NoError
    /\ statusFilter = "all"
    /\ dateFrom = NoDate
    /\ dateTo = NoDate
    /\ searchQuery = << >>
    /\ debouncedSearch = << >>
    /\ sortField = "date"
    /\ sortOrder = "desc"
    /\ currentPage = 1
    /\ timer = << >>
    /\ fetching = FALSE
    /\ tzOffset = 0
    /\ view \in filteredAndSortedTransactions(transactions, statusFilter,
                    dateFrom, dateTo, debouncedSearch, sortField, sortOrder,
                    tzOffset)
    /\ lastSort = "none"
    /\ CsvIdle
    /\ FormIdle

NextPager ==
    \/ PreviousPage
    \/ NextPage
    \/ \E i \in 0..4 : PageButton(i)

SpecPager == InitPager /\ [][NextPager]_vars

\* a pending timeout that is not cleared expires after its 300 ms
SpecTimers == Init /\ [][NextSearch]_vars /\ WF_vars(TimerFire)

----------------------------------------------------------------------------
(* CSV export, csv.ts (src/unnamed/part_004:17-46)                         *)
(* Field values and the output are sequences of one-character strings; an  *)
(* optional field is [defined, text].                                      *)

Undefined == [defined |-> FALSE, text |-> << >>]

Defined(text) == [defined |-> TRUE, text |-> text]

\* v ?? fallback
nullish(v, fallback) == IF v.defined THEN v.text ELSE fallback

\* /[",\n]/.test(value)
needsQuotes(value) == \E i \in 1..Len(value) : value[i] \in {"\"", ",", "\n"}

\* value.replace(/"/g, '""')
RECURSIVE replaceQuotes(_)
replaceQuotes(value) ==
    IF value = << >> THEN << >>
    ELSE (IF Head(value) = "\"" THEN <<"\"", "\"">> ELSE <<Head(value)>>)
         \o replaceQuotes(Tail(value))

\* escapeCsv that wraps without doubling the quotes inside
escapeCsvNoDoubling(value) ==
    IF needsQuotes(value) THEN <<"\"">> \o value \o <<"\"">> ELSE value

\* escapeCsv, part_004:19-24, for the strings String(v) hands to it
escapeCsv(value) ==
    IF needsQuotes(value)
    THEN <<"\"">> \o replaceQuotes(value) \o <<"\"">>
    ELSE replaceQuotes(value)

\* Array.prototype.join(separator) of an array of strings
RECURSIVE join(_, _)
join(list, separator) ==
    IF list = << >> THEN << >>
    ELSE IF Len(list) = 1 THEN list[1]
    ELSE list[1] \o separator \o join(Tail(list), separator)

headers ==
    <<<<"i", "d">>,
      <<"h", "a", "s", "h">>,
      <<"f", "r", "o", "m", "A", "d", "d", "r", "e", "s", "s">>,
      <<"t", "o", "A", "d", "d", "r", "e", "s", "s">>,
      <<"a", "m", "o", "u", "n", "t">>,
      <<"s", "t", "a", "t", "u", "s">>,
      <<"g", "a", "s", "L", "i", "m", "i", "t">>,
      <<"g", "a", "s", "P", "r", "i", "c", "e">>,
      <<"t", "i", "m", "e", "s", "t", "a", "m", "p">>>>

\* the vals array with gasLimit and gasPrice in each other's place
csvValsSwapped(r) ==
    <<r.id, r.hash, r.fromAddress, r.toAddress, r.amount, r.status,
      nullish(r.gasPrice, << >>), nullish(r.gasLimit, << >>), r.timestamp>>

\* the vals array before escaping, part_004:32-42; String(v) of a string is
\* the string
csvVals(r) ==
    <<r.id, r.hash, r.fromAddress, r.toAddress, r.amount, r.status,
      nullish(r.gasLimit, << >>), nullish(r.gasPrice, << >>), r.timestamp>>

\* vals.map(v => escapeCsv(String(v))).join(',')
csvLine(r) == join([j \in 1..9 |-> escapeCsv(csvVals(r)[j])], <<",">>)

\* transactionsToCsv, part_004:26-46
transactionsToCsv(rows) ==
    join(<<join(headers, <<",">>)>> \o [i \in 1..Len(rows) |-> csvLine(rows[i])],
         <<"\n">>)

\* Longest generated field text and longest row list of the CSV inputs.
CsvMaxLen == 2

CsvMaxRows == 3

\* Field values of the test transactions, part_001:9-82
HashWithComma == <<"0", "x", ",", "t", "e", "s", "t">>

HashWithQuotes == <<"0", "x", "\"", "q", "u", "o", "t", "e", "d", "\"">>

TestFrom == <<"0", "x", "f", "r", "o", "m">>

TestTo == <<"0", "x", "t", "o">>

TestAmount == <<"1", ".", "0">>

TestStatus == <<"p", "e", "n", "d", "i", "n", "g">>

TestTimestamp ==
    <<"2", "0", "2", "4", "-", "0", "1", "-", "1", "5",
      "T", "1", "0", ":", "0", "0", ":", "0", "0", "Z">>

TestGasLimit == <<"2", "1", "0", "0", "0">>

TestGasPrice == <<"0", ".", "0", "0", "0", "0", "0", "0", "0", "2">>

TestHash == <<"0", "x", "a", "b", "c">>

CsvChars == {"a", ",", "\"", "\n"}

CsvTexts ==
    UNION {[1..n -> CsvChars] : n \in 0..CsvMaxLen}
    \cup {HashWithComma, HashWithQuotes}

CsvTx(id, hash, gasLimit, gasPrice) ==
    [id |-> id, hash |-> hash, fromAddress |-> TestFrom, toAddress |-> TestTo,
     amount |-> TestAmount, status |-> TestStatus, gasLimit |-> gasLimit,
     gasPrice |-> gasPrice, timestamp |-> TestTimestamp]

GasChoices == {Undefined, Defined(TestGasLimit), Defined(TestGasPrice)}

\* first rows: any text as hash, gas fields present or absent
CsvFirstRows ==
    {CsvTx(<<"1">>, h, gl, gp) : h \in CsvTexts, gl \in GasChoices, gp \in GasChoices}

\* the rows that may follow
CsvMoreRows ==
    {CsvTx(<<"2">>, HashWithComma, Undefined, Defined(TestGasPrice)),
     CsvTx(<<"3">>, TestHash, Defined(TestGasLimit), Undefined)}

CsvInputs ==
    {<< >>} \cup
    {<<first>> \o more :
        first \in CsvFirstRows,
        more \in UNION {[1..n -> CsvMoreRows] : n \in 0..(CsvMaxRows - 1)}}

InitCsv ==
    /\ InitPage
    /\ tzOffset = 0
    /\ csvRows \in CsvInputs
    /\ csvOutput = << >>
    /\ FormIdle

\* const csv = transactionsToCsv(rows)
ExportCsv ==
    /\ csvOutput = << >>
    /\ csvOutput' = transactionsToCsv(csvRows)
    /\ UNCHANGED <<transactions, loading, error, statusFilter, dateFrom, dateTo,
                   searchQuery, debouncedSearch, sortField, sortOrder,
                   currentPage, timer, fetching, tzOffset, view, lastSort,
                   csvRows, formVars>>

NextCsv == ExportCsv

SpecCsv == InitCsv /\ [][NextCsv]_vars

----------------------------------------------------------------------------
(* CreateTransactionForm.tsx: the dialog's handlers and effects.  A handler *)
(* is one step together with the render it causes and the effects of that  *)
(* render; only a reset() called from an effect leaves a render pending.   *)
(* The parent owns the prop open: it opens the dialog, and closes it when  *)
(* onClose is called.                                                      *)

\* localStorage.removeItem(DRAFT_KEY)
removeItem(item) == NoItem

\* the parent sets open = true: the load effect reads the draft and, if there
\* is one, calls reset(parsed); the save effect of the same render then
\* stores the watchedValues of that render, those from before the reset
OpenForm ==
    /\ ~open
    /\ ~renderPending
    /\ open' = TRUE
    /\ formValues' = loadEffect(open', draft, formValues)
    /\ draft' = saveEffect(open', formValues, draft)
    /\ renderPending' = resetCalled(open', draft)
    /\ called' = {}
    /\ UNCHANGED <<submitting, createPending, toastTitle, pageVars, csvVars>>

\* the render requested by reset(): watchedValues changed, the save effect
\* runs again; open did not change, the load effect does not
Rerender ==
    /\ renderPending
    /\ draft' = saveEffect(open, formValues, draft)
    /\ renderPending' = FALSE
    /\ UNCHANGED <<open, formValues, submitting, createPending, called,
                   toastTitle, pageVars, csvVars>>

\* <Dialog onOpenChange={onClose}>: the user dismisses the dialog
CloseForm ==
    /\ open
    /\ ~renderPending
    /\ called' = {"onClose"}
    /\ open' = FALSE
    /\ draft' = saveEffect(open', formValues, draft)
    /\ UNCHANGED <<formValues, submitting, createPending, toastTitle,
                   renderPending, pageVars, csvVars>>

\* typing into one of the four inputs (disabled while submitting)
SetField(name, text) ==
    /\ open
    /\ ~submitting
    /\ ~renderPending
    /\ text # formValues[name]
    /\ formValues' = [formValues EXCEPT ![name] = text]
    /\ draft' = saveEffect(open, formValues', draft)
    /\ called' = {}
    /\ UNCHANGED <<open, submitting, createPending, toastTitle, renderPending,
                   pageVars, csvVars>>

\* handleClearDraft, form:127-139 (button disabled while submitting)
handleClearDraft ==
    /\ open
    /\ ~submitting
    /\ ~renderPending
    /\ formValues' = defaultValues
    /\ toastTitle' = "Draft cleared"
    /\ draft' = saveEffect(open, formValues', removeItem(draft))
    /\ called' = {}
    /\ UNCHANGED <<open, submitting, createPending, renderPending, pageVars,
                   csvVars>>

\* onSubmit up to its await, for values the schema does not accept
\* handleSubmit never calls it
onSubmit ==
    /\ open
    /\ ~submitting
    /\ ~renderPending
    /\ schemaValid(formValues)
    /\ submitting' = TRUE
    /\ createPending' = TRUE
    /\ draft' = saveEffect(open, formValues, draft)
    /\ called' = {}
    /\ UNCHANGED <<open, formValues, toastTitle, renderPending, pageVars,
                   csvVars>>

\* a catch branch without the finally block
CreateRejectNoFinally ==
    /\ createPending
    /\ ~renderPending
    /\ toastTitle' = "Error"
    /\ createPending' = FALSE
    /\ draft' = saveEffect(open, formValues, draft)
    /\ called' = {}
    /\ UNCHANGED <<open, formValues, submitting, renderPending, pageVars,
                   csvVars>>

\* the create request resolves, form:98-114 and finally: toast, removeItem,
\* reset(defaults), onSuccess(), onClose(), setSubmitting(false); the updates
\* are rendered together, with the dialog closed
CreateResolve ==
    /\ createPending
    /\ ~renderPending
    /\ toastTitle' = "Transaction created successfully!"
    /\ formValues' = defaultValues
    /\ called' = {"onSuccess", "onClose"}
    /\ open' = FALSE
    /\ submitting' = FALSE
    /\ createPending' = FALSE
    /\ draft' = saveEffect(open', formValues', removeItem(draft))
    /\ UNCHANGED <<renderPending, pageVars, csvVars>>

\* the create request rejects, form:115-124: toast, setSubmitting(false)
CreateReject ==
    /\ createPending
    /\ ~renderPending
    /\ toastTitle' = "Error"
    /\ submitting' = FALSE
    /\ createPending' = FALSE
    /\ draft' = saveEffect(open, formValues, draft)
    /\ called' = {}
    /\ UNCHANGED <<open, formValues, renderPending, pageVars, csvVars>>

\* the page is loaded again: the component state starts over, localStorage
\* stays
Reload ==
    /\ ~renderPending
    /\ open' = FALSE
    /\ formValues' = defaultValues
    /\ submitting' = FALSE
    /\ createPending' = FALSE
    /\ called' = {}
    /\ toastTitle' = "none"
    /\ UNCHANGED <<draft, renderPending, pageVars, csvVars>>

InitForm ==
    /\ InitPage
    /\ tzOffset = 0
    /\ CsvIdle
    /\ FormIdle

NextForm ==
    \/ OpenForm
    \/ Rerender
    \/ CloseForm
    \/ \E i \in 1..Len(FieldNames) :
           \E text \in FieldTexts(FieldNames[i]) : SetField(FieldNames[i], text)
    \/ handleClearDraft
    \/ onSubmit
    \/ CreateResolve
    \/ CreateReject
    \/ Reload

SpecForm == InitForm /\ [][NextForm]_vars

----------------------------------------------------------------------------
(* Properties *)

Ids(list) == {list[i].id : i \in 1..Len(list)}

Max(a, b) == IF a > b THEN a ELSE b

Min(a, b) == IF a < b THEN a ELSE b

\* the requested page brought into [1, max(totalPages, 1)]
ClampedPage == Max(1, Min(currentPage, Max(totalPages, 1)))

\* C1: in every reachable state the rows shown are the content of the clamped
\* page: a page number outside [1, max(totalPages,1)] shows the nearest
\* existing page (beyond the last: the last page), never an empty slice of a
\* non-empty result.
C1_ClampedPageShown ==
    paginatedTransactions = pageSlice(view, ClampedPage, itemsPerPage)

queryParams ==
    <<statusFilter, dateFrom, dateTo, debouncedSearch, sortField, sortOrder>>

\* C2: every step in which a query parameter of the pipeline changes (status
\* filter, dateFrom, dateTo, the search text in effect, sort field, sort
\* order, alone or together as by Clear Filters) ends with currentPage = 1.
C2_PageResetOnParamChange ==
    [][queryParams' # queryParams => currentPage' = 1]_vars

RECURSIVE ConcatPages(_, _, _)
\* the slices of pages 1..n, one after the other
ConcatPages(list, n, size) ==
    IF n = 0 THEN << >>
    ELSE ConcatPages(list, n - 1, size) \o pageSlice(list, n, size)

PageSizes == (1..MaxPageSize) \cup {itemsPerPage}

\* C3: for every filtered-sorted list the page can hold and every page size,
\* the slices of pages 1..totalPages put end to end are exactly the list
\* (each element once, in order), and totalPages is the ceiling of
\* length / pageSize: the least n with n * pageSize >= length.
C3_PagesCoverView ==
    \A size \in PageSizes :
        LET n == totalPagesOf(Len(view), size)
        IN  /\ ConcatPages(view, n, size) = view
            /\ n * size >= Len(view)
            /\ (n - 1) * size < Len(view)

\* C3 witness: a result of more than one page is shown on its last, partly
\* filled page.
C3_Witness ==
    /\ tableShown
    /\ totalPages > 1
    /\ currentPage = totalPages
    /\ Len(paginatedTransactions) \in 1..(itemsPerPage - 1)

\* the list handed to the sort stage
SortInput ==
    filtered(transactions, statusFilter, dateFrom, dateTo, debouncedSearch,
             tzOffset)

\* position of the record with the given id in a list of distinct records
PosOf(list, id) == CHOOSE i \in 1..Len(list) : list[i].id = id

\* the sort key the comparator derives from a record
SortKey(tx) ==
    CASE sortField = "date"   -> DateOfTimestamp(tx.timestamp)
      [] sortField = "amount" -> parseFloat(tx.amount)
      [] sortField = "status" -> Num(StatusRank(tx.status))

\* C4: the sort is stable for both orders: two records with equal sort keys
\* appear in the sorted list in the relative order they had in the filtered
\* input.
C4_SortStable ==
    \A i, j \in 1..Len(SortInput) :
        (/\ i < j
         /\ ~SortKey(SortInput[i]).nan
         /\ SortKey(SortInput[i]) = SortKey(SortInput[j]))
        => PosOf(view, SortInput[i].id) < PosOf(view, SortInput[j].id)

\* C5: under sort by date the comparator never yields NaN for two displayed
\* records, and records with an unparseable timestamp are placed as the
\* smallest value: before all others under asc, after all others under desc.
C5_UnparseableDatesSmallest ==
    sortField = "date" =>
        \A i, j \in 1..Len(view) :
            /\ ~comparator(view[i], view[j], sortField, sortOrder).nan
            /\ (/\ DateOfTimestamp(view[i].timestamp).nan
                /\ ~DateOfTimestamp(view[j].timestamp).nan)
               => IF sortOrder = "asc" THEN i < j ELSE j < i

\* the amount as a number, an unparseable amount counting as 0
AmountOrZero(tx) ==
    IF parseFloat(tx.amount).nan THEN 0 ELSE parseFloat(tx.amount).v

\* C6: under sort by amount the list is ordered by the numeric amounts with an
\* unparseable amount taken as 0: ascending under asc, descending under desc.
C6_UnparseableAmountAsZero ==
    sortField = "amount" =>
        \A i, j \in 1..Len(view) :
            i < j => IF sortOrder = "asc"
                     THEN AmountOrZero(view[i]) <= AmountOrZero(view[j])
                     ELSE AmountOrZero(view[i]) >= AmountOrZero(view[j])

\* the instant (epoch ms) at which calendar day d begins in the zone that is
\* z minutes ahead of UTC
DayStart(d, z) == d.day * DayMs - z * 60000

\* both date bounds checked against day boundaries of the one zone z
WithinDayBounds(tx, z) ==
    LET t == DateOfTimestamp(tx.timestamp)
    IN  /\ dateFrom.set => (~t.nan /\ t.v >= DayStart(dateFrom, z))
        /\ dateTo.set => (~t.nan /\ t.v <= DayStart(dateTo, z) + EndOfDayMs)

\* C7: the date bounds are inclusive and refer to one time zone (UTC or the
\* local zone): among the records passing the other filters exactly those are
\* retained whose timestamp is >= 00:00:00.000 of dateFrom and
\* <= 23:59:59.999 of dateTo in that zone, whatever the zone offset of the
\* environment.
C7_DateBoundsOneZone ==
    (debouncedSearch = << >> /\ (dateFrom.set \/ dateTo.set)) =>
        \E z \in {0, tzOffset} :
            \A i \in 1..Len(transactions) :
                (statusFilter = "all" \/ transactions[i].status = statusFilter)
                => (transactions[i].id \in Ids(view)
                      <=> WithinDayBounds(transactions[i], z))

\* only white space (or nothing at all)
IsBlank(text) == \A i \in 1..Len(text) : text[i] = " "

\* C8: a search text that is empty after trimming is no search: the records
\* retained are those retained with an empty search text.
C8_BlankSearchIsNoSearch ==
    IsBlank(debouncedSearch) =>
        Ids(view) = Ids(filtered(transactions, statusFilter, dateFrom, dateTo,
                                 << >>, tzOffset))

\* letter-case folding of one character, written out pair by pair
FoldChar(c) ==
    LET pairs == {<<"A", "a">>, <<"B", "b">>, <<"C", "c">>, <<"D", "d">>,
                  <<"E", "e">>, <<"F", "f">>, <<"X", "x">>}
    IN  IF \E p \in pairs : p[1] = c
        THEN (CHOOSE p \in pairs : p[1] = c)[2]
        ELSE c

\* q occurs in text at some position, letter case disregarded
OccursIgnoringCase(q, text) ==
    \E start \in 1..(Len(text) - Len(q) + 1) :
        \A k \in 1..Len(q) : FoldChar(text[start + k - 1]) = FoldChar(q[k])

\* the list handed to the search stage
SearchInput ==
    filterDateTo(filterDateFrom(filterStatus(transactions, statusFilter),
                                dateFrom), dateTo, tzOffset)

\* C9: with a non-empty search text a record that passed the earlier filters
\* is retained iff the text occurs, letter case disregarded, in its hash or
\* in its fromAddress or in its toAddress.
C9_SearchAnyFieldIgnoringCase ==
    debouncedSearch # << >> =>
        \A i \in 1..Len(SearchInput) :
            LET tx == SearchInput[i]
            IN  tx.id \in Ids(view)
                  <=> \/ OccursIgnoringCase(debouncedSearch, tx.hash)
                      \/ OccursIgnoringCase(debouncedSearch, tx.fromAddress)
                      \/ OccursIgnoringCase(debouncedSearch, tx.toAddress)

\* C9 witness: the mixed-case text "xAB" is in effect on the small response;
\* record 1 is retained through its hash "0xABc", record 3 through its
\* toAddress "0XabC" alone, record 2 ("0xdead" throughout) is dropped.
C9_Witness ==
    /\ debouncedSearch = <<"x", "A", "B">>
    /\ transactions = SmallResponse
    /\ Ids(SearchInput) = {1, 2, 3, 4}
    /\ Ids(view) = {1, 3}

\* C10: a handleSort click on a field other than the active one makes it the
\* sort field with order desc; a click on the active field keeps the field
\* and flips the order (so repeated clicks give desc, asc, desc, ... and two
\* clicks restore the order).
C10_SortToggleLaw ==
    [][lastSort' # "none" =>
          /\ sortField' = lastSort'
          /\ (lastSort' # sortField => sortOrder' = "desc")
          /\ (lastSort' = sortField =>
                sortOrder' = (IF sortOrder = "asc" THEN "desc" ELSE "asc"))]_vars

\* C10 witness: amount was selected (desc) and then clicked again (asc).
C10_Witness ==
    /\ lastSort = "amount"
    /\ sortField = "amount"
    /\ sortOrder = "asc"

\* C11: whenever the footer "Showing from-to of total" is rendered, the
\* range follows the pagination rule for the clamped page: from =
\* (page-1)*pageSize + 1, to = min(page*pageSize, total), hence
\* 1 <= from <= to <= total, and to - from + 1 is the number of rows on the
\* displayed page; with no rows at all both numbers are 0.
C11_VisibleRange ==
    /\ Len(view) = 0 => showingFrom = 0 /\ showingTo = 0
    /\ tableShown =>
           /\ showingFrom = (ClampedPage - 1) * itemsPerPage + 1
           /\ showingTo = Min(ClampedPage * itemsPerPage, Len(view))
           /\ 1 <= showingFrom
           /\ showingFrom <= showingTo
           /\ showingTo <= Len(view)
           /\ showingTo - showingFrom + 1 = Len(paginatedTransactions)

noneFoundShown == emptyStateShown /\ emptyStateMessage = NoneFound

noneMatchShown == emptyStateShown /\ emptyStateMessage = NoneMatch

ShownViews ==
    {v \in {"noneFound", "noneMatch", "table"} :
        \/ v = "noneFound" /\ noneFoundShown
        \/ v = "noneMatch" /\ noneMatchShown
        \/ v = "table" /\ tableShown}

\* C16: in every state with loading = false and error = null exactly one of
\* three views is shown: "no transactions found" iff the raw list is empty,
\* "no transactions match your filters" iff the raw list is non-empty and the
\* filtered list is empty, the table with pagination iff the filtered list
\* is non-empty.
C16_ExactlyOneView ==
    (~loading /\ error = NoError) =>
        /\ Cardinality(ShownViews) = 1
        /\ noneFoundShown <=> Len(transactions) = 0
        /\ noneMatchShown <=> (Len(transactions) > 0 /\ Len(view) = 0)
        /\ tableShown <=> Len(view) > 0

\* loaded data, every row filtered away
C16_Witness ==
    /\ ~loading
    /\ error = NoError
    /\ Len(transactions) > 0
    /\ Len(view) = 0
    /\ noneMatchShown

\* C17: every fetch ends with loading = false; a failed fetch sets a
\* non-null error and leaves the transaction list as it was; Retry is offered
\* (and clickable) whenever error is set; starting a fetch, initial or retry,
\* clears the error, so a successful fetch ends with error = null and the
\* list equal to the fetched set.
C17_FetchOutcome ==
    /\ [](fetching => (loading /\ error = NoError))
    /\ [](error # NoError => (errorShown /\ ENABLED Retry))
    /\ [][(fetching /\ ~fetching') => ~loading']_vars
    /\ [][(~fetching /\ fetching') => error' = NoError]_vars
    /\ [][FetchReject => (error' # NoError /\ transactions' = transactions)]_vars
    /\ [][\A data \in Responses :
              FetchResolve(data) => (error' = NoError /\ transactions' = data)]_vars

\* a fetch has failed: the banner with Retry is up and nothing is loading
C17_Witness == error = FetchError /\ ~loading /\ ~fetching /\ errorShown

\* C18: each change of searchQuery cancels the pending timer and starts a
\* new one, so at most one timer is pending; debouncedSearch changes only
\* when a timer fires, to the searchQuery current at that moment and together
\* with currentPage = 1; once the user stops changing the query,
\* debouncedSearch eventually equals searchQuery (and stays equal).
C18_Debounce ==
    /\ [][Len(timer') <= 1]_vars
    /\ [][searchQuery' # searchQuery => timer' = << searchQuery' >>]_vars
    /\ [][debouncedSearch' # debouncedSearch =>
              /\ timer # << >>
              /\ timer' = << >>
              /\ searchQuery' = searchQuery
              /\ debouncedSearch' = searchQuery
              /\ currentPage' = 1]_vars
    /\ (debouncedSearch # searchQuery) ~> (debouncedSearch = searchQuery)

\* a timer is pending for a query that is not yet in effect
C18_Witness ==
    /\ Len(timer) = 1
    /\ searchQuery = Head(timer)
    /\ debouncedSearch # searchQuery
    /\ debouncedSearch # << >>

pageNumbers == {pageNum(i) : i \in pageButtons}

pageInRange == 1 <= currentPage /\ currentPage <= totalPages

\* C20: whenever 1 <= currentPage <= totalPages, the page buttons rendered
\* are exactly min(totalPages, 5) distinct consecutive page numbers, all
\* within 1..totalPages, and currentPage is one of them; clicking Previous,
\* Next or a page button from such a state leaves currentPage within
\* 1..totalPages.
C20_PageButtonsWindow ==
    /\ [](pageInRange =>
            /\ Cardinality(pageButtons) = Min(totalPages, 5)
            /\ Cardinality(pageNumbers) = Min(totalPages, 5)
            /\ \E lo \in 1..totalPages :
                   pageNumbers = lo..(lo + Min(totalPages, 5) - 1)
            /\ pageNumbers \subseteq 1..totalPages
            /\ currentPage \in pageNumbers)
    /\ [][(pageInRange /\ currentPage' # currentPage) =>
              (1 <= currentPage' /\ currentPage' <= totalPages')]_vars

\* more than five pages and the current page in the last three
C20_Witness ==
    /\ tableShown
    /\ totalPages > 5
    /\ currentPage > 3
    /\ currentPage >= totalPages - 2
    /\ pageNum(4) = totalPages

(* Reading a CSV text back: a comma or a newline outside double quotes ends *)
(* a field or a record; the fields are returned as written, quotes kept.   *)

QuotesIn(text, from, to) ==
    Cardinality({k \in from..to : text[k] = "\""})

\* position p ends the field that starts at position from
EndsField(text, from, p) ==
    \/ p = Len(text) + 1
    \/ /\ text[p] = "," \/ text[p] = "\n"
       /\ QuotesIn(text, from, p - 1) % 2 = 0

FieldEnd(text, from) ==
    CHOOSE p \in from..(Len(text) + 1) :
        /\ EndsField(text, from, p)
        /\ \A q \in from..(p - 1) : ~EndsField(text, from, q)

RECURSIVE ScanCsv(_, _, _)
ScanCsv(text, from, record) ==
    LET p     == FieldEnd(text, from)
        field == SubSeq(text, from, p - 1)
    IN  IF p > Len(text) THEN << Append(record, field) >>
        ELSE IF text[p] = ","
             THEN ScanCsv(text, p + 1, Append(record, field))
        ELSE << Append(record, field) >> \o ScanCsv(text, p + 1, << >>)

CsvRecords(text) == ScanCsv(text, 1, << >>)

\* every "" becomes ", a lone " spoils the result
RECURSIVE Collapse(_)
Collapse(inner) ==
    IF inner = << >> THEN << >>
    ELSE IF Head(inner) # "\"" THEN << Head(inner) >> \o Collapse(Tail(inner))
    ELSE IF Len(inner) >= 2 /\ inner[2] = "\""
         THEN << "\"" >> \o Collapse(SubSeq(inner, 3, Len(inner)))
    ELSE << "lone quote" >>

HasSpecial(value) ==
    \E i \in 1..Len(value) : value[i] = "," \/ value[i] = "\"" \/ value[i] = "\n"

NumQuotes(value) == Cardinality({i \in 1..Len(value) : value[i] = "\""})

\* the nine columns in the order of the header line
Columns ==
    <<"id", "hash", "fromAddress", "toAddress", "amount", "status",
      "gasLimit", "gasPrice", "timestamp">>

ColumnValue(r, column) ==
    CASE column = "id"          -> r.id
      [] column = "hash"        -> r.hash
      [] column = "fromAddress" -> r.fromAddress
      [] column = "toAddress"   -> r.toAddress
      [] column = "amount"      -> r.amount
      [] column = "status"      -> r.status
      [] column = "gasLimit"    -> IF r.gasLimit.defined THEN r.gasLimit.text ELSE << >>
      [] column = "gasPrice"    -> IF r.gasPrice.defined THEN r.gasPrice.text ELSE << >>
      [] column = "timestamp"   -> r.timestamp

\* one record per row after the header record, nine fields each
WellShaped(records, rows) ==
    /\ Len(records) = Len(rows) + 1
    /\ \A i \in 1..Len(records) : Len(records[i]) = Len(Columns)

EscapedAsClaimed(value, written) ==
    IF HasSpecial(value)
    THEN /\ Len(written) = Len(value) + NumQuotes(value) + 2
         /\ written[1] = "\""
         /\ written[Len(written)] = "\""
         /\ Collapse(SubSeq(written, 2, Len(written) - 1)) = value
    ELSE written = value

QuotedHashWithComma ==
    <<"\"", "0", "x", ",", "t", "e", "s", "t", "\"">>

QuotedHashWithQuotes ==
    <<"\"", "0", "x", "\"", "\"", "q", "u", "o", "t", "e", "d", "\"", "\"",
      "\"">>

\* C14: every field value is serialized as the value wrapped in double
\* quotes with each double quote inside doubled iff it contains a comma, a
\* double quote or a newline, and unchanged otherwise; hash 0x,test gives
\* "0x,test" and hash 0x"quoted" gives "0x""quoted""".
C14_CsvEscaping ==
    /\ escapeCsv(HashWithComma) = QuotedHashWithComma
    /\ escapeCsv(HashWithQuotes) = QuotedHashWithQuotes
    /\ csvOutput # << >> =>
          \A records \in {CsvRecords(csvOutput)} :
              /\ WellShaped(records, csvRows)
              /\ \A i \in 1..Len(csvRows), j \in 1..Len(Columns) :
                     EscapedAsClaimed(ColumnValue(csvRows[i], Columns[j]),
                                      records[i + 1][j])

\* exported: a hash with quotes inside, followed by further rows
C14_Witness ==
    /\ csvOutput # << >>
    /\ Len(csvRows) > 1
    /\ csvRows[1].hash = HashWithQuotes

\* what a field as written stands for
Unquoted(written) ==
    IF written # << >> /\ written[1] = "\""
    THEN IF Len(written) >= 2 /\ written[Len(written)] = "\""
         THEN Collapse(SubSeq(written, 2, Len(written) - 1))
         ELSE << "open quote" >>
    ELSE written

HeaderLine ==
    <<"i", "d", ",", "h", "a", "s", "h", ",", "f", "r", "o", "m", "A", "d",
      "d", "r", "e", "s", "s", ",", "t", "o", "A", "d", "d", "r", "e", "s",
      "s", ",", "a", "m", "o", "u", "n", "t", ",", "s", "t", "a", "t", "u",
      "s", ",", "g", "a", "s", "L", "i", "m", "i", "t", ",", "g", "a", "s",
      "P", "r", "i", "c", "e", ",", "t", "i", "m", "e", "s", "t", "a", "m",
      "p">>

\* C15: the output is the header line
\* id,hash,fromAddress,toAddress,amount,status,gasLimit,gasPrice,timestamp
\* followed by exactly one record per input transaction in input order, each
\* holding the nine fields in that column order, an absent gasLimit or
\* gasPrice written as the empty string; for an empty list the output is the
\* header line alone.
C15_CsvLayout ==
    csvOutput # << >> =>
        \A records \in {CsvRecords(csvOutput)} :
            /\ SubSeq(csvOutput, 1, Len(HeaderLine)) = HeaderLine
            /\ csvRows = << >> => csvOutput = HeaderLine
            /\ csvRows # << >> => csvOutput[Len(HeaderLine) + 1] = "\n"
            /\ WellShaped(records, csvRows)
            /\ \A i \in 1..Len(csvRows), j \in 1..Len(Columns) :
                   Unquoted(records[i + 1][j]) =
                       ColumnValue(csvRows[i], Columns[j])

\* exported: three rows, the second without gasLimit, the third without
\* gasPrice
C15_Witness ==
    /\ csvOutput # << >>
    /\ Len(csvRows) = 3
    /\ ~csvRows[2].gasLimit.defined
    /\ ~csvRows[3].gasPrice.defined
    /\ csvRows[2] # csvRows[3]

\* C12: after a successful submit and after Clear Draft, once the handler
\* and the effects it triggers have run, the draft key holds no stored draft
\* (it is absent, not re-written with the default field values), in
\* particular after Clear Draft while the form remains open.
C12_DraftCleared ==
    [][(CreateResolve \/ handleClearDraft) => ~draft'.present]_vars

C19_FailedCreate ==
    /\ [](createPending <=> submitting)
    /\ [](submitting => (~ENABLED onSubmit /\ ~ENABLED handleClearDraft))
    /\ [][CreateReject =>
              /\ draft' = draft
              /\ draft'.present
              /\ formValues' = formValues
              /\ called' = {}
              /\ open' = open
              /\ ~submitting']_vars
    /\ [][(createPending /\ ~createPending') => ~submitting']_vars
    /\ [][createPending' => (createPending \/ onSubmit)]_vars

\* a create request has failed: the dialog is still open with the values
\* that were submitted, and the draft holds them
C19_Witness ==
    /\ toastTitle = "Error"
    /\ open
    /\ ~submitting
    /\ ~createPending
    /\ schemaValid(formValues)
    /\ draft = Item(JSONstringify(formValues))

====
